---- MODULE Spec2Model ----
(***************************************************************************)
(* scpkg: a package manager client (src/scpkg.py).                         *)
(*                                                                         *)
(* The state is the two files in the working directory (the catalog file   *)
(* scpkg_db.json and the installed-state file installed_packages.json) and *)
(* the invocations of the program that are running.  One invocation is one *)
(* process: it starts with an argument vector, runs the module-level       *)
(* initialisation, dispatches in main() and steps through the function of  *)
(* its command.  Every file access, prompt and subprocess run is one step, *)
(* so that invocations running at the same time interleave between them.   *)
(***************************************************************************)
EXTENDS Integers, Sequences, FiniteSets

\* ------------------------------------------------------------------- state

VARIABLES
    dbFile,         \* DB_FILE, the cached catalog
    installedFile,  \* INSTALLED_FILE, the installed set
    proc,           \* the invocation running in each slot
    lastRefresh     \* history: the invocation before, when it was an update_db
                    \* that reported failure

vars == <<dbFile, installedFile, proc, lastRefresh>>

\* ------------------------------------------------------------------ bounds

\* Longest catalog a fetch returns.
MaxCat == 2

\* Invocations that may run at the same time (SpecConc); Spec runs one.
Procs == {1, 2}

\* ------------------------------------------------------------ package data

Names == {"mypkg", "pkg", "other"}

\* The characters of the strings the program applies string operations to.
Chars(s) ==
    CASE s = "mypkg" -> <<"m", "y", "p", "k", "g">>
      [] s = "pkg"   -> <<"p", "k", "g">>
      [] s = "PKG"   -> <<"P", "K", "G">>
      [] s = "other" -> <<"o", "t", "h", "e", "r">>
      [] s = "zzz"   -> <<"z", "z", "z">>
      [] OTHER       -> <<>>

VersionsOf(n) == IF n = "mypkg" THEN {"1.0", "2.0"} ELSE {"1.0"}

\* A package descriptor of the catalog: name, desc, version, the three shell
\* commands and the source URL.  The commands and the URL of two versions of
\* a package differ.
Desc(n, v) ==
    [name    |-> n,
     desc    |-> <<"desc", n>>,
     version |-> v,
     install |-> <<"install", n, v>>,
     remove  |-> <<"remove", n, v>>,
     update  |-> <<"update", n, v>>,
     src     |-> <<"src", n, v>>]

Descriptors == UNION {{Desc(n, v) : v \in VersionsOf(n)} : n \in Names}

NoPkg == Desc("", "")

SeqsUpTo(S, k) == UNION {[1..n -> S] : n \in 0..k}

\* The catalogs a remote host may serve: any sequence of descriptors, names
\* not necessarily unique.
Catalogs == SeqsUpTo(Descriptors, MaxCat)

\* ------------------------------------------------------------------- files

\* A file is absent, holds JSON (data), holds text that is not JSON, or has
\* just been opened for writing and is empty.
FileAbsent  == [st |-> "absent",  data |-> <<>>]
FileCorrupt == [st |-> "corrupt", data |-> <<>>]
FileEmpty   == [st |-> "empty",   data |-> <<>>]
FileJson(d) == [st |-> "json",    data |-> d]

\* ------------------------------------------------------ python dictionaries

\* A dict is a sequence of [key, val] entries, keys unique, in insertion
\* order (the order json.load and json.dump keep).
DictKeys(d) == {d[i].key : i \in 1..Len(d)}

DictHas(d, k) == k \in DictKeys(d)

DictGet(d, k) == d[CHOOSE i \in 1..Len(d) : d[i].key = k].val

DictSet(d, k, v) ==
    IF DictHas(d, k)
    THEN [i \in 1..Len(d) |-> IF d[i].key = k THEN [key |-> k, val |-> v] ELSE d[i]]
    ELSE Append(d, [key |-> k, val |-> v])

DictDel(d, k) == SelectSeq(d, LAMBDA e : e.key # k)

\* ---------------------------------------------------------- string helpers

IsSpace(c) == c \in {" ", "\t"}

RECURSIVE LStrip(_)
LStrip(s) == IF s # <<>> /\ IsSpace(Head(s)) THEN LStrip(Tail(s)) ELSE s

RECURSIVE RStrip(_)
RStrip(s) ==
    IF s # <<>> /\ IsSpace(s[Len(s)]) THEN RStrip(SubSeq(s, 1, Len(s) - 1)) ELSE s

Strip(s) == RStrip(LStrip(s))

LowerChar(c) ==
    CASE c = "Y" -> "y"
      [] c = "N" -> "n"
      [] c = "P" -> "p"
      [] c = "K" -> "k"
      [] c = "G" -> "g"
      [] OTHER   -> c

Lower(s) == [i \in 1..Len(s) |-> LowerChar(s[i])]

\* Python's `a in b` on strings.
Contains(a, b) ==
    \E i \in 0..(Len(b) - Len(a)) : SubSeq(b, i + 1, i + Len(a)) = a

\* -------------------------------------------------------- the code's helpers

\* load_db / load_installed: open(..., "r") raises when the file is absent and
\* json.load raises when its text is not JSON; neither is caught.
\* (mutant: a file that is there but is not JSON loads as an empty document)
LoadRaisesAbsentOnly(file) == file.st = "absent"

LoadRaises(file) == file.st # "json"

load_db(file) == file.data

load_installed(file) == file.data

\* (mutant: the entries the file holds now are merged into what is written)
save_installed_merge(installed) ==
    FileJson(installed \o SelectSeq(installedFile.data,
                                    LAMBDA e : ~DictHas(installed, e.key)))

\* save_installed(installed): json.dump writes the whole dict it is given.
save_installed(installed) == FileJson(installed)

\* (mutant: no .lower())
confirm_action_no_lower(auto_confirm, choice) ==
    auto_confirm \/ Strip(choice) = <<"y">>

\* (mutant: the answer is not looked at)
confirm_action_always(auto_confirm, choice) == TRUE

\* confirm_action(auto_confirm) with `choice` the line input() returns.
confirm_action(auto_confirm, choice) ==
    auto_confirm \/ Lower(Strip(choice)) = <<"y">>

\* (mutant: the loop does not return at the first match, the last one wins)
FindPkgLast(db, name) ==
    IF \E i \in 1..Len(db) : db[i].name = name
    THEN CHOOSE i \in 1..Len(db) :
            db[i].name = name /\ \A j \in (i + 1)..Len(db) : db[j].name # name
    ELSE 0

\* `for pkg in db: if pkg['name'] == name`: the first entry with that name
\* (0 when the loop falls through).
FindPkg(db, name) ==
    IF \E i \in 1..Len(db) : db[i].name = name
    THEN CHOOSE i \in 1..Len(db) :
            db[i].name = name /\ \A j \in 1..(i - 1) : db[j].name # name
    ELSE 0

\* `for pkg in db: if name.lower() in pkg['name'].lower()`.
FindMatch(db, query) ==
    LET hit(i) == Contains(Lower(Chars(query)), Lower(Chars(db[i].name)))
    IN  IF \E i \in 1..Len(db) : hit(i)
        THEN CHOOSE i \in 1..Len(db) : hit(i) /\ \A j \in 1..(i - 1) : ~hit(j)
        ELSE 0

\* The lines list_packages prints, one per catalog entry.
ListLines(db) ==
    [i \in 1..Len(db) |-> <<"-", db[i].name, db[i].desc, db[i].version>>]

\* ------------------------------------------------------------------- main

Flags == {"-y", "-h", "-v"}

Commands ==
    {"update-db", "list", "search", "install", "remove", "update", "upgrade", "src"}

\* main(): the flags are filtered out of the arguments wherever they stand;
\* -h and -v return before the dispatch; a command that needs a name and has
\* none is an unknown command.  argv is sys.argv[1:].
ParseArgs(argv) ==
    LET args == SelectSeq(argv, LAMBDA a : a \notin Flags)
        has(f) == \E i \in 1..Len(argv) : argv[i] = f
        command == args[1]
        needsName == {"search", "install", "remove", "update", "src"}
        op == CASE has("-h") -> "help"
                [] has("-v") -> "version"
                [] Len(args) < 1 -> "usage"
                [] command \in {"update-db", "list", "upgrade"} -> command
                [] command \in needsName /\ Len(args) > 1 -> command
                [] OTHER -> "unknown"
    IN  [cmd  |-> op,
         name |-> IF op \in needsName THEN args[2] ELSE "",
         auto |-> has("-y")]

\* ------------------------------------------------------------- invocations

NoChoice == <<"-">>

\* An invocation: where it is (pc), what main() parsed, the locals of the
\* function it runs, what it printed (out), the subprocesses it ran with their
\* exit status (ran), and history: the results of its confirm_action calls
\* (conf), the number of its input() calls (prompts) and the two files as they
\* were when main() dispatched (f0, d0).  choice is confirm_action's
\* local: the line input() returned, dead at the caller's next step.
Idle ==
    [pc |-> "idle", cmd |-> "", name |-> "", auto |-> FALSE,
     db |-> <<>>, installed |-> <<>>, pkg |-> NoPkg, idx |-> 0,
     status |-> 0, body |-> FileAbsent,
     out |-> <<>>, ran |-> <<>>,
     conf |-> <<>>, prompts |-> 0, choice |-> NoChoice,
     f0 |-> FileAbsent, d0 |-> FileAbsent]

\* Whether the invocation before this one was an update_db that reported
\* failure, and then the catalog file it found.  list_packages is the one
\* reader of this history; main() forgets it for any other command.
NoRefresh == [failed |-> FALSE, before |-> FileAbsent]

Init ==
    /\ dbFile = FileAbsent
    /\ installedFile = FileAbsent
    /\ proc = [p \in Procs |-> Idle]
    /\ lastRefresh = NoRefresh

Halted(p) == proc[p].pc \in {"idle", "exit", "crashed"}

At(p, l) == proc[p].pc = l

Goto(p, r) == proc' = [proc EXCEPT ![p] = r]

Echo(r, line) == Append(r.out, line)

\* ----------------------------------------------------------------- inputs

\* The names on the command line: package names, and for search two queries
\* more.
ArgNames(c) == IF c = "search" THEN Names \cup {"PKG", "zzz"} ELSE Names

BareArgvs ==
    {<<>>} \cup {<<c>> : c \in Commands \cup {"bogus"}}
           \cup UNION {{<<c, n>> : n \in ArgNames(c)} : c \in Commands}

\* The command lines (sys.argv[1:]): a command, a name or none, and a flag or
\* none after them, or -y before them.
Argvs ==
    BareArgvs \cup {a \o <<f>> : f \in Flags, a \in BareArgvs}
              \cup {<<"-y">> \o a : a \in BareArgvs}

\* What the user may type at the prompt (input() drops the line's end).
Responses ==
    {<<"y">>, <<"Y">>, <<" ", "y">>, <<"n">>, <<>>, <<"y", "e", "s">>}

\* The status of the response to the GET, and its text.
Statuses == {200, 404, 500}

Bodies == {FileJson(c) : c \in Catalogs} \cup {FileCorrupt}

\* The exit status of a package's shell command.
ExitCodes == {0, 1}

\* ------------------------------------------------------- start of a process

\* A new invocation of scpkg in a free slot.
Start(p) ==
    /\ Halted(p)
    /\ Goto(p, [Idle EXCEPT !.pc = "boot"])
    /\ UNCHANGED <<dbFile, installedFile, lastRefresh>>

\* Lines 15-17, run when the module is loaded: os.path.exists, then open(.., "w"),
\* then json.dump({}) and the close that writes it.
ModuleInitCheck(p) ==
    /\ At(p, "boot")
    /\ Goto(p, [proc[p] EXCEPT !.pc =
                   IF installedFile.st = "absent" THEN "boot_open" ELSE "main"])
    /\ UNCHANGED <<dbFile, installedFile, lastRefresh>>

ModuleInitOpen(p) ==
    /\ At(p, "boot_open")
    /\ installedFile' = FileEmpty
    /\ Goto(p, [proc[p] EXCEPT !.pc = "boot_dump"])
    /\ UNCHANGED <<dbFile, lastRefresh>>

ModuleInitDump(p) ==
    /\ At(p, "boot_dump")
    /\ installedFile' = FileJson(<<>>)
    /\ Goto(p, [proc[p] EXCEPT !.pc = "main"])
    /\ UNCHANGED <<dbFile, lastRefresh>>

\* main(): sys.argv is read here first, then the dispatch on the command.
MainWith(p, argvs) ==
    /\ At(p, "main")
    /\ \E argv \in argvs :
       LET a == ParseArgs(argv)
           r == [proc[p] EXCEPT !.cmd = a.cmd, !.name = a.name, !.auto = a.auto,
                                !.f0 = installedFile, !.d0 = dbFile]
           c == r.cmd
       IN  /\ Goto(p,
             CASE c = "help"    -> [r EXCEPT !.pc = "exit", !.out = <<<<"help">>>>]
               [] c = "version" -> [r EXCEPT !.pc = "exit", !.out = <<<<"version">>>>]
               [] c = "usage"   -> [r EXCEPT !.pc = "exit", !.out = <<<<"usage">>>>]
               [] c = "unknown" ->
                    [r EXCEPT !.pc = "exit", !.out = <<<<"unknown">>, <<"help">>>>]
               [] OTHER         -> [r EXCEPT !.pc = c])
          /\ lastRefresh' = IF a.cmd = "list" THEN lastRefresh ELSE NoRefresh
    /\ UNCHANGED <<dbFile, installedFile>>

Main(p) == MainWith(p, Argvs)

Crash(p) == Goto(p, [proc[p] EXCEPT !.pc = "crashed"])

\* ---------------------------------------------------------------- update_db

\* (mutant: only a 404 counts as a failure)
update_db_writes_unless_404(status) == status # 404

\* `if response.status_code == 200`.
update_db_writes(status) == status = 200

\* requests.get returns a response.
UpdateDbGet(p) ==
    /\ At(p, "update-db")
    /\ \E status \in Statuses :
          LET r == [proc[p] EXCEPT !.status = status]
          IN  IF update_db_writes(status)
              THEN /\ Goto(p, [r EXCEPT !.pc = "update_db_open"])
                   /\ UNCHANGED lastRefresh
              ELSE /\ Goto(p, [r EXCEPT !.pc = "exit",
                                        !.out = Echo(r, <<"Failed to update database.">>)])
                   /\ lastRefresh' = [failed |-> TRUE, before |-> dbFile]
    /\ UNCHANGED <<dbFile, installedFile>>

\* requests.get raises (no connection); nothing catches it.
UpdateDbGetRaises(p) ==
    /\ At(p, "update-db")
    /\ Crash(p)
    /\ UNCHANGED <<dbFile, installedFile, lastRefresh>>

\* open(DB_FILE, "w") empties the file.
UpdateDbOpen(p) ==
    /\ At(p, "update_db_open")
    /\ dbFile' = FileEmpty
    /\ Goto(p, [proc[p] EXCEPT !.pc = "update_db_write"])
    /\ UNCHANGED <<installedFile, lastRefresh>>

\* What update_db writes of a response text.
update_db_text(body) == body

\* db_file.write(response.text) and the close: the text as it came.  The text
\* is read here first.
UpdateDbWrite(p) ==
    /\ At(p, "update_db_write")
    /\ \E body \in Bodies :
          /\ dbFile' = update_db_text(body)
          /\ Goto(p, [proc[p] EXCEPT !.pc = "exit", !.body = body,
                         !.out = Echo(proc[p], <<"Database updated successfully.">>)])
    /\ lastRefresh' = NoRefresh
    /\ UNCHANGED installedFile

\* ------------------------------------------------- list, search, open_source

ListPackages(p) ==
    /\ At(p, "list")
    /\ IF LoadRaises(dbFile)
       THEN Crash(p)
       ELSE Goto(p, [proc[p] EXCEPT !.pc = "exit",
                        !.out = <<<<"Available packages:">>>> \o ListLines(load_db(dbFile))])
    /\ UNCHANGED <<dbFile, installedFile, lastRefresh>>

SearchPackage(p) ==
    /\ At(p, "search")
    /\ IF LoadRaises(dbFile)
       THEN Crash(p)
       ELSE LET db == load_db(dbFile)
                i  == FindMatch(db, proc[p].name)
            IN  Goto(p, [proc[p] EXCEPT !.pc = "exit",
                   !.out = IF i = 0
                           THEN <<<<"Package not found.">>>>
                           ELSE <<<<"Found package:", db[i].name, db[i].desc,
                                    db[i].version>>>>])
    /\ UNCHANGED <<dbFile, installedFile, lastRefresh>>

OpenSource(p) ==
    /\ At(p, "src")
    /\ IF LoadRaises(dbFile)
       THEN Crash(p)
       ELSE LET db == load_db(dbFile)
                i  == FindPkg(db, proc[p].name)
            IN  Goto(p, [proc[p] EXCEPT !.pc = "exit",
                   !.out = IF i = 0
                           THEN <<<<"Package not found.">>>>
                           ELSE <<<<"webbrowser.open", db[i].src>>,
                                  <<"Opening source for", proc[p].name, db[i].src>>>>])
    /\ UNCHANGED <<dbFile, installedFile, lastRefresh>>

\* ----------------------------------------------------------- confirm_action

\* Where a function goes on after confirm_action returned `yes`.  upgrade_all
\* goes to the next entry when it returned False; the others return.
RunLabel(cmd) ==
    CASE cmd = "install" -> "install_run"
      [] cmd = "remove"  -> "remove_run"
      [] cmd = "update"  -> "update_run"
      [] cmd = "upgrade" -> "upgrade_run"

\* (mutant: upgrade_all leaves its loop at the first answer that is not yes)
AfterConfirmBreak(r, yes) ==
    CASE yes   -> [r EXCEPT !.pc = RunLabel(r.cmd)]
      [] OTHER -> [r EXCEPT !.pc = "exit"]

AfterConfirm(r, yes) ==
    CASE yes                -> [r EXCEPT !.pc = RunLabel(r.cmd)]
      [] r.cmd = "upgrade"  -> [r EXCEPT !.pc = "upgrade_next", !.idx = r.idx + 1]
      [] OTHER              -> [r EXCEPT !.pc = "exit"]

\* confirm_action(auto_confirm): input() is called only when auto_confirm is
\* False.
ConfirmAction(p) ==
    /\ At(p, "confirm")
    /\ LET r == proc[p]
       IN  \E choice \in IF r.auto THEN {NoChoice} ELSE Responses :
              LET yes == confirm_action(r.auto, choice)
              IN  Goto(p, AfterConfirm(
                     [r EXCEPT !.conf = Append(r.conf, yes),
                               !.prompts = IF r.auto THEN r.prompts ELSE r.prompts + 1,
                               !.choice = choice],
                     yes))
    /\ UNCHANGED <<dbFile, installedFile, lastRefresh>>

\* ----------------------------------------------------------- save_installed

\* open(INSTALLED_FILE, "w") empties the file.
SaveInstalledOpen(p) ==
    /\ At(p, "save_open")
    /\ installedFile' = FileEmpty
    /\ Goto(p, [proc[p] EXCEPT !.pc = "save_dump"])
    /\ UNCHANGED <<dbFile, lastRefresh>>

\* json.dump(installed, file, indent=4) and the close, then the caller's last
\* print.
SaveInstalledDump(p) ==
    /\ At(p, "save_dump")
    /\ installedFile' = save_installed(proc[p].installed)
    /\ Goto(p, [proc[p] EXCEPT !.pc = "exit",
                   !.out = Echo(proc[p],
                      IF proc[p].cmd = "install"
                      THEN <<proc[p].name, "installed successfully.">>
                      ELSE <<proc[p].name, "removed successfully.">>)])
    /\ UNCHANGED <<dbFile, lastRefresh>>

\* ---------------------------------------------------------- install_package

\* db = load_db()
InstallLoadDb(p) ==
    /\ At(p, "install")
    /\ IF LoadRaises(dbFile)
       THEN Crash(p)
       ELSE Goto(p, [proc[p] EXCEPT !.pc = "install_load", !.db = load_db(dbFile)])
    /\ UNCHANGED <<dbFile, installedFile, lastRefresh>>

\* installed = load_installed(), then the loop over db up to confirm_action.
InstallLoadInstalled(p) ==
    /\ At(p, "install_load")
    /\ IF LoadRaises(installedFile)
       THEN Crash(p)
       ELSE LET r == [proc[p] EXCEPT !.installed = load_installed(installedFile),
                                     !.db = <<>>]
                db == proc[p].db
                i  == FindPkg(db, r.name)
            IN  Goto(p,
                  CASE i = 0 ->
                         [r EXCEPT !.pc = "exit", !.out = Echo(r, <<"Package not found.">>)]
                    [] i # 0 /\ DictHas(r.installed, r.name) ->
                         [r EXCEPT !.pc = "exit",
                                   !.out = Echo(r, <<r.name, "is already installed.">>)]
                    [] OTHER ->
                         [r EXCEPT !.pc = "confirm", !.pkg = db[i],
                                   !.out = Echo(r, <<"Installing", r.name, db[i].desc,
                                                     db[i].version>>)])
    /\ UNCHANGED <<dbFile, installedFile, lastRefresh>>

\* (mutant: the package is recorded only when its command succeeded)
InstallRecordIfOk(installed, name, pkg, rc) ==
    IF rc = 0 THEN DictSet(installed, name, pkg) ELSE installed

\* Lines 87-88: the dict after subprocess.run returned with returncode rc.
InstallRecord(installed, name, pkg, rc) == DictSet(installed, name, pkg)

InstallRun(p) ==
    /\ At(p, "install_run")
    /\ \E rc \in ExitCodes :
          LET r == [proc[p] EXCEPT !.choice = NoChoice]
          IN  Goto(p, [r EXCEPT !.pc = "save_open",
                 !.ran = Append(r.ran, [cmd |-> r.pkg.install, rc |-> rc]),
                 !.installed = InstallRecord(r.installed, r.name, r.pkg, rc)])
    /\ UNCHANGED <<dbFile, installedFile, lastRefresh>>

\* ----------------------------------------------------------- remove_package

RemoveLoad(p) ==
    /\ At(p, "remove")
    /\ IF LoadRaises(installedFile)
       THEN Crash(p)
       ELSE LET r == [proc[p] EXCEPT !.installed = load_installed(installedFile)]
            IN  Goto(p,
                  IF DictHas(r.installed, r.name)
                  THEN [r EXCEPT !.pc = "confirm", !.out = Echo(r, <<"Removing", r.name>>)]
                  ELSE [r EXCEPT !.pc = "exit", !.out = Echo(r, <<"Package not installed.">>)])
    /\ UNCHANGED <<dbFile, installedFile, lastRefresh>>

\* (mutant: popitem() instead of del: the entry inserted last goes)
RemoveRecordPop(installed, name, rc) == SubSeq(installed, 1, Len(installed) - 1)

\* Lines 101-102: the dict after subprocess.run returned with returncode rc.
RemoveRecord(installed, name, rc) == DictDel(installed, name)

RemoveRun(p) ==
    /\ At(p, "remove_run")
    /\ \E rc \in ExitCodes :
          LET r == [proc[p] EXCEPT !.choice = NoChoice]
          IN  Goto(p, [r EXCEPT !.pc = "save_open",
                 !.ran = Append(r.ran, [cmd |-> DictGet(r.installed, r.name).remove,
                                        rc |-> rc]),
                 !.installed = RemoveRecord(r.installed, r.name, rc)])
    /\ UNCHANGED <<dbFile, installedFile, lastRefresh>>

\* ----------------------------------------------------------- update_package

UpdateLoad(p) ==
    /\ At(p, "update")
    /\ IF LoadRaises(installedFile)
       THEN Crash(p)
       ELSE LET r == [proc[p] EXCEPT !.installed = load_installed(installedFile)]
            IN  Goto(p,
                  IF DictHas(r.installed, r.name)
                  THEN [r EXCEPT !.pc = "confirm", !.out = Echo(r, <<"Updating", r.name>>)]
                  ELSE [r EXCEPT !.pc = "exit", !.out = Echo(r, <<"Package not installed.">>)])
    /\ UNCHANGED <<dbFile, installedFile, lastRefresh>>

\* (mutant: the update command of the catalog's entry, when it has one)
UpdateCommandOfCatalog(pkg) ==
    IF FindPkg(dbFile.data, pkg.name) # 0
    THEN dbFile.data[FindPkg(dbFile.data, pkg.name)].update
    ELSE pkg.update

\* The command update_package and upgrade_all run for a stored descriptor.
UpdateCommand(pkg) == pkg.update

UpdateRun(p) ==
    /\ At(p, "update_run")
    /\ \E rc \in ExitCodes :
          LET r == [proc[p] EXCEPT !.choice = NoChoice]
          IN  Goto(p, [r EXCEPT !.pc = "exit",
                 !.ran = Append(r.ran,
                            [cmd |-> UpdateCommand(DictGet(r.installed, r.name)),
                             rc |-> rc]),
                 !.out = Echo(r, <<r.name, "updated successfully.">>)])
    /\ UNCHANGED <<dbFile, installedFile, lastRefresh>>

\* -------------------------------------------------------------- upgrade_all

UpgradeLoad(p) ==
    /\ At(p, "upgrade")
    /\ IF LoadRaises(installedFile)
       THEN Crash(p)
       ELSE Goto(p, [proc[p] EXCEPT !.pc = "upgrade_next", !.idx = 1,
                                    !.installed = load_installed(installedFile)])
    /\ UNCHANGED <<dbFile, installedFile, lastRefresh>>

\* `for name, pkg in installed.items()`: the next entry, or the end.
UpgradeNext(p) ==
    /\ At(p, "upgrade_next")
    /\ LET r == [proc[p] EXCEPT !.choice = NoChoice]
       IN  Goto(p,
             IF r.idx <= Len(r.installed)
             THEN [r EXCEPT !.pc = "confirm",
                            !.out = Echo(r, <<"Upgrading", r.installed[r.idx].key>>)]
             ELSE [r EXCEPT !.pc = "exit"])
    /\ UNCHANGED <<dbFile, installedFile, lastRefresh>>

\* The entry upgrade_all goes to after subprocess.run returned with rc.
UpgradeAdvance(idx, rc) == idx + 1

UpgradeRun(p) ==
    /\ At(p, "upgrade_run")
    /\ \E rc \in ExitCodes :
          LET r == [proc[p] EXCEPT !.choice = NoChoice]
              e == r.installed[r.idx]
          IN  Goto(p, [r EXCEPT !.pc = "upgrade_next",
                 !.idx = UpgradeAdvance(r.idx, rc),
                 !.ran = Append(r.ran, [cmd |-> UpdateCommand(e.val), rc |-> rc]),
                 !.out = Echo(r, <<e.key, "upgraded to latest version.">>)])
    /\ UNCHANGED <<dbFile, installedFile, lastRefresh>>

\* ------------------------------------------------------------ specifications

Step(p) ==
    \/ Start(p)
    \/ ModuleInitCheck(p)
    \/ ModuleInitOpen(p)
    \/ ModuleInitDump(p)
    \/ Main(p)
    \/ UpdateDbGet(p)
    \/ UpdateDbGetRaises(p)
    \/ UpdateDbOpen(p)
    \/ UpdateDbWrite(p)
    \/ ListPackages(p)
    \/ SearchPackage(p)
    \/ OpenSource(p)
    \/ ConfirmAction(p)
    \/ SaveInstalledOpen(p)
    \/ SaveInstalledDump(p)
    \/ InstallLoadDb(p)
    \/ InstallLoadInstalled(p)
    \/ InstallRun(p)
    \/ RemoveLoad(p)
    \/ RemoveRun(p)
    \/ UpdateLoad(p)
    \/ UpdateRun(p)
    \/ UpgradeLoad(p)
    \/ UpgradeNext(p)
    \/ UpgradeRun(p)

\* One invocation at a time: what the program's own design assumes.
Next == Step(1)

Spec == Init /\ [][Next]_vars

\* Two invocations at a time, each an install or a remove with -y, in a directory
\* where update-db has run: a catalog of two packages, nothing installed.
ConcCatalog == <<Desc("mypkg", "1.0"), Desc("pkg", "1.0")>>

ConcArgvs ==
    {<<c, n, "-y">> : c \in {"install", "remove"}, n \in {"mypkg", "pkg"}}

InitConc ==
    /\ dbFile = FileJson(ConcCatalog)
    /\ installedFile = FileJson(<<>>)
    /\ proc = [p \in Procs |-> Idle]
    /\ lastRefresh = NoRefresh

MainConc(p) == MainWith(p, ConcArgvs)

StepConc(p) ==
    \/ Start(p)
    \/ ModuleInitCheck(p)
    \/ MainConc(p)
    \/ ConfirmAction(p)
    \/ SaveInstalledOpen(p)
    \/ SaveInstalledDump(p)
    \/ InstallLoadDb(p)
    \/ InstallLoadInstalled(p)
    \/ InstallRun(p)
    \/ RemoveLoad(p)
    \/ RemoveRun(p)

NextConc == \E p \in Procs : StepConc(p)

SpecConc == InitConc /\ [][NextConc]_vars

\* ---------------------------------------------------- vocabulary of the claims

Exited(p) == proc[p].pc = "exit"

\* The installed set and the catalog an invocation found when it began.
OldInstalled(p) == proc[p].f0.data

OldCatalog(p) == proc[p].d0.data

\* The positions of the catalog entries called name.
Named(db, name) == {i \in 1..Len(db) : db[i].name = name}

Least(S) == CHOOSE i \in S : \A j \in S : i <= j

\* The position of the entry with key k in a dict.
KeyAt(d, k) == CHOOSE i \in 1..Len(d) : d[i].key = k

\* A response that reads `y` or `Y` once the blanks around it are dropped.
SaysYes(choice) ==
    SelectSeq(choice, LAMBDA c : c \notin {" ", "\t"}) \in {<<"y">>, <<"Y">>}

\* ------------------------------------------------------------------------ C1

\* C1: a confirmed install of a name that is in the catalog and not in the
\* installed set ends with the installed set being the previous one plus the
\* one entry name -> the first catalog descriptor with that name; an install
\* of a name that is already in the installed set runs no command, asks
\* nothing and leaves the installed set as it was.
C1_InstallAddsFirstMatch ==
    \A p \in Procs :
       proc[p].cmd = "install" /\ Exited(p) =>
          LET old  == OldInstalled(p)
              db   == OldCatalog(p)
              name == proc[p].name
          IN  /\ (  /\ Named(db, name) # {}
                    /\ name \notin DictKeys(old)
                    /\ proc[p].conf = <<TRUE>>)
                 => /\ installedFile.st = "json"
                    /\ installedFile.data =
                          Append(old, [key |-> name,
                                       val |-> db[Least(Named(db, name))]])
                    /\ Len(proc[p].ran) = 1
              /\ name \in DictKeys(old)
                 => /\ proc[p].ran = <<>>
                    /\ proc[p].conf = <<>>
                    /\ installedFile = proc[p].f0

\* An install of a package that is installed already, under a catalog that
\* names it twice with two versions, the installed one being the first.
C1_Witness ==
    \E p \in Procs :
       /\ proc[p].cmd = "install" /\ Exited(p)
       /\ proc[p].name \in DictKeys(OldInstalled(p))
       /\ Len(OldCatalog(p)) = 2
       /\ OldCatalog(p)[1].name = proc[p].name
       /\ OldCatalog(p)[2].name = proc[p].name
       /\ OldCatalog(p)[1] # OldCatalog(p)[2]
       /\ installedFile.data = <<[key |-> proc[p].name, val |-> OldCatalog(p)[1]]>>

\* ------------------------------------------------------------------------ C2

\* C2: a confirmed remove of an installed name deletes the entry of that name
\* and leaves every other entry, key and descriptor, where it was; a remove
\* of a name that is not installed runs no command and leaves the installed
\* set as it was.
C2_RemoveDeletesExactly ==
    \A p \in Procs :
       proc[p].cmd = "remove" /\ Exited(p) =>
          LET old  == OldInstalled(p)
              name == proc[p].name
          IN  /\ (name \in DictKeys(old) /\ proc[p].conf = <<TRUE>>)
                 => /\ installedFile.st = "json"
                    /\ installedFile.data =
                          [i \in 1..(Len(old) - 1) |->
                              IF i < KeyAt(old, name) THEN old[i] ELSE old[i + 1]]
                    /\ Len(proc[p].ran) = 1
              /\ name \notin DictKeys(old)
                 => /\ proc[p].ran = <<>>
                    /\ proc[p].conf = <<>>
                    /\ installedFile = proc[p].f0

\* A confirmed remove of the first of three installed packages.
C2_Witness ==
    \E p \in Procs :
       /\ proc[p].cmd = "remove" /\ Exited(p)
       /\ proc[p].conf = <<TRUE>>
       /\ Len(OldInstalled(p)) = 3
       /\ OldInstalled(p)[1].key = proc[p].name
       /\ installedFile.data = Tail(OldInstalled(p))

\* ------------------------------------------------------------------------ C3

\* C3: without -y, an install, remove or update whose prompt got an answer
\* that is not yes has returned, has run no command, and both files are as
\* they were.
C3_DeclineChangesNothing ==
    \A p \in Procs :
       (  /\ proc[p].cmd \in {"install", "remove", "update"}
          /\ ~proc[p].auto
          /\ proc[p].choice # NoChoice
          /\ ~SaysYes(proc[p].choice))
       => /\ Exited(p)
          /\ proc[p].ran = <<>>
          /\ installedFile = proc[p].f0
          /\ dbFile = proc[p].d0

\* A remove of an installed package, declined with the empty answer.
C3_Witness ==
    \E p \in Procs :
       /\ proc[p].cmd = "remove" /\ Exited(p)
       /\ ~proc[p].auto
       /\ proc[p].choice = <<>>
       /\ proc[p].name \in DictKeys(installedFile.data)

\* ------------------------------------------------------------------------ C4

\* C4: an update_db that got a status other than 200 (or no response) leaves
\* the catalog file as it was; one that got 200 leaves it holding the response
\* text, whatever it is; no other command writes it; and a list that follows
\* a failed update_db of a well-formed catalog prints that catalog's entries
\* in order.
C4_FailedRefreshKeepsCatalog ==
    \A p \in Procs :
       /\ (proc[p].cmd = "update-db" /\ proc[p].status # 200) => dbFile = proc[p].d0
       /\ (proc[p].cmd = "update-db" /\ proc[p].status = 200 /\ Exited(p))
          => dbFile = proc[p].body
       /\ proc[p].cmd \notin {"", "update-db"} => dbFile = proc[p].d0
       /\ (  /\ proc[p].cmd = "list"
             /\ proc[p].pc # "list"
             /\ lastRefresh.failed
             /\ lastRefresh.before.st = "json")
          => /\ Exited(p)
             /\ dbFile = lastRefresh.before
             /\ proc[p].out =
                   <<<<"Available packages:">>>> \o
                   [i \in 1..Len(lastRefresh.before.data) |->
                       <<"-", lastRefresh.before.data[i].name,
                         lastRefresh.before.data[i].desc,
                         lastRefresh.before.data[i].version>>]

\* A list right after a failed update_db, of a catalog of two different
\* entries.
C4_Witness ==
    \E p \in Procs :
       /\ proc[p].cmd = "list" /\ Exited(p)
       /\ lastRefresh.failed
       /\ Len(lastRefresh.before.data) = 2
       /\ lastRefresh.before.data[1].name # lastRefresh.before.data[2].name
       /\ Len(proc[p].out) = 3

\* ------------------------------------------------------------------------ C5

\* The names upgrade_all announced, in the order of its "Upgrading" lines.
Announced(p) ==
    LET lines == SelectSeq(proc[p].out, LAMBDA l : l[1] = "Upgrading")
    IN  [i \in 1..Len(lines) |-> lines[i][2]]

\* The elements of s whose flag is set.
RECURSIVE Picked(_, _)
Picked(s, flags) ==
    IF s = <<>> \/ flags = <<>>
    THEN <<>>
    ELSE (IF Head(flags) THEN <<Head(s)>> ELSE <<>>) \o Picked(Tail(s), Tail(flags))

\* Between two entries and at its end, upgrade_all has announced and asked
\* about the first entries of the installed set, in insertion order, and has
\* run the update command of each one that was confirmed, whatever the earlier
\* answers and exit statuses were; at its end these are all the entries.
UpgradeVisited(p) ==
    (proc[p].cmd = "upgrade" /\ proc[p].pc \in {"upgrade_next", "exit"}) =>
       LET old == OldInstalled(p)
           n   == Len(proc[p].conf)
       IN  /\ n <= Len(old)
           /\ Exited(p) => n = Len(old)
           /\ Announced(p) = [i \in 1..n |-> old[i].key]
           /\ [i \in 1..Len(proc[p].ran) |-> proc[p].ran[i].cmd]
                 = Picked([i \in 1..n |-> old[i].val.update], proc[p].conf)

\* What is left of the loop: three steps an entry at most.
UpgradeRank(r) ==
    3 * (Len(r.installed) + 1 - r.idx)
      + (CASE r.pc = "upgrade_next" -> 2 [] r.pc = "confirm" -> 1 [] OTHER -> 0)

\* Every step of the loop brings its end nearer.
UpgradeProgress ==
    \A p \in Procs :
       (  /\ proc[p].cmd = "upgrade"
          /\ proc[p].pc \in {"upgrade_next", "confirm", "upgrade_run"}
          /\ proc'[p] # proc[p])
       => /\ proc'[p].pc \in {"upgrade_next", "confirm", "upgrade_run", "exit"}
          /\ UpgradeRank(proc'[p]) >= 0
          /\ UpgradeRank(proc'[p]) < UpgradeRank(proc[p])

\* C5: upgrade_all visits the N installed entries in insertion order, asks
\* and runs the update command for each independently of the answers and exit
\* statuses before it, and ends after the N-th.
C5_UpgradeVisitsAll ==
    /\ [](\A p \in Procs : UpgradeVisited(p))
    /\ [][UpgradeProgress]_vars

\* An upgrade of three packages: the first update command failed, the second
\* was declined, the third was run.
C5_Witness ==
    \E p \in Procs :
       /\ proc[p].cmd = "upgrade" /\ Exited(p)
       /\ Len(OldInstalled(p)) = 3
       /\ proc[p].conf = <<TRUE, FALSE, TRUE>>
       /\ Len(proc[p].ran) = 2
       /\ proc[p].ran[1].rc = 1
       /\ proc[p].ran[2].cmd = OldInstalled(p)[3].val.update

\* ------------------------------------------------------------------------ C6

\* The gate's other rules: with -y nothing is asked and every call says yes;
\* without it every call asks once; an install, remove or update that was
\* refused has returned without running anything, and one that was confirmed
\* and has returned ran its one command.
GateRules(p) ==
    /\ proc[p].auto =>
          /\ proc[p].prompts = 0
          /\ proc[p].choice = NoChoice
          /\ \A i \in 1..Len(proc[p].conf) : proc[p].conf[i]
    /\ ~proc[p].auto => proc[p].prompts = Len(proc[p].conf)
    /\ (proc[p].cmd \in {"install", "remove", "update"} /\ proc[p].conf = <<FALSE>>)
       => (Exited(p) /\ proc[p].ran = <<>>)
    /\ (proc[p].cmd \in {"install", "remove", "update"} /\ proc[p].conf = <<TRUE>>
          /\ Exited(p))
       => Len(proc[p].ran) = 1

\* C6 as stated: without -y the gate says yes exactly when the response is
\* `y` or `Y` and nothing else.
C6_ExactMatchOnly ==
    \A p \in Procs :
       /\ GateRules(p)
       /\ (~proc[p].auto /\ proc[p].choice # NoChoice)
          => (proc[p].conf[Len(proc[p].conf)]
                 <=> proc[p].choice \in {<<"y">>, <<"Y">>})

\* C6 amended: without -y the gate says yes exactly when the response, the
\* blanks around it dropped, is `y` or `Y`.
C6_StrippedMatch ==
    \A p \in Procs :
       /\ GateRules(p)
       /\ (~proc[p].auto /\ proc[p].choice # NoChoice)
          => (proc[p].conf[Len(proc[p].conf)] <=> SaysYes(proc[p].choice))

\* An install confirmed with ` y`.
C6_Witness ==
    \E p \in Procs :
       /\ proc[p].cmd = "install"
       /\ proc[p].choice = <<" ", "y">>
       /\ proc[p].conf = <<TRUE>>
       /\ proc[p].pc = "install_run"

\* ------------------------------------------------------------------------ C7

\* C7: once the command of a confirmed install or remove has returned, with
\* whatever exit status, the function goes on to save: when it has returned
\* the installed-state file holds the installed package under the descriptor
\* whose command was run, and does not hold the removed one.
C7_ExitStatusIgnored ==
    \A p \in Procs :
       (proc[p].cmd \in {"install", "remove"} /\ proc[p].ran # <<>>) =>
          /\ Len(proc[p].ran) = 1
          /\ proc[p].pc \in {"save_open", "save_dump", "exit"}
          /\ Exited(p) =>
                /\ installedFile.st = "json"
                /\ proc[p].cmd = "install" =>
                      /\ DictHas(installedFile.data, proc[p].name)
                      /\ DictGet(installedFile.data, proc[p].name).install
                            = proc[p].ran[1].cmd
                /\ proc[p].cmd = "remove" =>
                      ~DictHas(installedFile.data, proc[p].name)

\* An install whose command failed, the package recorded all the same.
C7_Witness ==
    \E p \in Procs :
       /\ proc[p].cmd = "install" /\ Exited(p)
       /\ Len(proc[p].ran) = 1
       /\ proc[p].ran[1].rc = 1
       /\ DictHas(installedFile.data, proc[p].name)

\* ------------------------------------------------------------------------ C8

\* The step in which p's save_installed writes.
Saves(p) == proc[p].pc = "save_dump" /\ proc'[p].pc = "exit"

\* C8: whatever another invocation wrote since p loaded the installed set,
\* p's save leaves the file holding p's own copy and nothing else: the set p
\* loaded, with the entry it installed or without the entry it removed.
C8_LastWriterWins ==
    [][\A p \in Procs :
          Saves(p) =>
             /\ installedFile' = FileJson(proc[p].installed)
             /\ proc[p].cmd = "install" =>
                   /\ proc[p].installed[Len(proc[p].installed)].key = proc[p].name
                   /\ \A e \in {installedFile.data[i] : i \in 1..Len(installedFile.data)} :
                         DictHas(installedFile'.data, e.key)
                            => DictHas(proc[p].installed, e.key)]_vars

\* Two installs of two packages at the same time: both commands were run,
\* both invocations have returned, and one package is on record.
C8_Witness ==
    /\ \A p \in Procs :
          /\ proc[p].cmd = "install" /\ Exited(p)
          /\ Len(proc[p].ran) = 1
          /\ proc[p].f0 = FileJson(<<>>)
    /\ proc[1].name # proc[2].name
    /\ installedFile.st = "json"
    /\ Len(installedFile.data) = 1

\* ------------------------------------------------------------------------ C9

\* C9: update_db, update and upgrade leave the installed-state file as they
\* found it, and the commands update and upgrade run are the update commands
\* of the descriptors stored in it.
C9_InstalledSetIsSnapshot ==
    \A p \in Procs :
       /\ proc[p].cmd \in {"update-db", "update", "upgrade"}
          => installedFile = proc[p].f0
       /\ proc[p].cmd = "update" =>
             \A i \in 1..Len(proc[p].ran) :
                /\ DictHas(OldInstalled(p), proc[p].name)
                /\ proc[p].ran[i].cmd =
                      OldInstalled(p)[KeyAt(OldInstalled(p), proc[p].name)].val.update
       /\ proc[p].cmd = "upgrade" =>
             \A i \in 1..Len(proc[p].ran) :
                \E j \in 1..Len(OldInstalled(p)) :
                   proc[p].ran[i].cmd = OldInstalled(p)[j].val.update

\* An update of a package installed at one version while the catalog's first
\* entry of that name is at another: the stored update command was run.
C9_Witness ==
    \E p \in Procs :
       /\ proc[p].cmd = "update" /\ Exited(p)
       /\ Len(proc[p].ran) = 1
       /\ Named(dbFile.data, proc[p].name) # {}
       /\ dbFile.data[Least(Named(dbFile.data, proc[p].name))].update
             # proc[p].ran[1].cmd

\* ----------------------------------------------------------------------- C10

\* C10: with the catalog file absent or not JSON, list, search, install and
\* src end in the uncaught exception of load_db, install before it asked,
\* ran or wrote anything; remove, update and upgrade never end in one.
C10_CatalogLoadIsFatal ==
    \A p \in Procs :
       /\ (  /\ proc[p].cmd \in {"list", "search", "install", "src"}
             /\ proc[p].d0.st # "json")
          => /\ proc[p].pc \in {proc[p].cmd, "crashed"}
             /\ proc[p].out = <<>>
             /\ proc[p].conf = <<>>
             /\ proc[p].prompts = 0
             /\ proc[p].ran = <<>>
             /\ installedFile = proc[p].f0
       /\ proc[p].cmd \in {"remove", "update", "upgrade"}
          => proc[p].pc # "crashed"

\* An install that ended in the exception, the catalog file holding text that
\* is not JSON and a package installed.
C10_Witness ==
    \E p \in Procs :
       /\ proc[p].cmd = "install"
       /\ proc[p].pc = "crashed"
       /\ proc[p].d0 = FileCorrupt
       /\ installedFile.st = "json"
       /\ Len(installedFile.data) = 1

====
